---- MODULE Spec2Model ----
(***************************************************************************)
(* A model of field-ops-benchmarks: the operation/backend capability model *)
(* (src/src/lib.rs), the calibration transform (src/src/config.rs), the    *)
(* statistics reduction (src/src/results.rs), the warmup-then-measure      *)
(* dispatch protocol (src/src/metal/runner.rs, src/src/webgpu/runner.rs)   *)
(* and the session loop of the command line tool (src/src/main.rs).        *)
(*                                                                         *)
(* Numbers.  TLC's integers are 32 bits wide, so Rust's u64 is modelled    *)
(* with the modulus U64Mod = 2^30 and u32 with U32Mod = 2^15: half the     *)
(* widths, which keeps the relations the code relies on (a product of two  *)
(* u32 fits a u64, a product of three need not) and holds every constant   *)
(* of the program but the seed.  An f64 is modelled as the exact rational  *)
(* it approximates, a record [num, den]; the f64 std_dev_ns, a square      *)
(* root, is modelled by its class: "zero" or "positive".                   *)
(***************************************************************************)
EXTENDS Integers, Sequences, FiniteSets, TLC

VARIABLES
    overflow_checks,  \* the build profile: do integer overflows panic (debug) or wrap (release)
    p_call,           \* the pure-function call under examination: its name and arguments
    p_out,            \* the values the call has returned so far, in order
    platform,         \* the backends for which Backend::is_available() holds
    args,             \* the parsed command line (Args)
    pc,               \* where the session is: start, create_runner, loop, run, wait, done, exit, panicked
    backend,          \* the backend run_benchmarks was called with
    operations,       \* the operations run_benchmarks was called with
    config,           \* the session's BenchmarkConfig
    idx,              \* the position of `for op in operations`
    op_config,        \* config.for_operation(op) of the current run_benchmark
    w_done,           \* warmup dispatches that have returned in the current run
    t_done,           \* timed dispatches that have returned in the current run
    in_flight,        \* command buffers submitted and not yet waited for
    gpu_failed,       \* some dispatch of the current run ended with a device error
    timings,          \* the Vec<Duration> of the current run
    run_result,       \* what the latest run_benchmark returned: none, Ok, Err
    attempts,         \* history: the run_benchmark calls of the current run_benchmarks, [op, ok]
    report,           \* the session's BenchmarkReport
    mode,             \* which of main's branches runs: batch, compare, interactive
    selection,        \* interactive mode: the BenchmarkSelection of quick_run
    backends,         \* comparison and interactive mode: the backends looped over
    b_idx,            \* the position of `for backend in ..`
    all_reports       \* comparison and interactive mode: the reports pushed so far

pure_vars == <<p_call, p_out>>
outer_vars == <<mode, selection, backends, b_idx, all_reports>>
session_vars ==
    <<platform, args, pc, backend, operations, config, idx, op_config, w_done,
      t_done, in_flight, gpu_failed, timings, run_result, attempts, report,
      outer_vars>>
vars == <<overflow_checks, pure_vars, session_vars>>

(***************************************************************************)
(* Integer widths                                                          *)
(***************************************************************************)
U64Mod == 2^30
U32Mod == 2^15

\* a + b in u64: the wrapped value and whether it overflowed
AddU64(a, b) == [val |-> (a + b) % U64Mod, overflow |-> a + b >= U64Mod]

\* a * b in u64 for b a u32, by limbs of a of the u32 width, so that no
\* intermediate value leaves TLC's integers
MulU64(a, b) ==
    LET hi == (a \div U32Mod) * b
        lo == (a % U32Mod) * b
    IN [val |-> ((hi % U32Mod) * U32Mod + lo) % U64Mod,
        overflow |-> hi + lo \div U32Mod >= U32Mod]

(***************************************************************************)
(* Rationals standing for f64 values                                       *)
(***************************************************************************)
Rat(n, d) == [num |-> n, den |-> d]
RatZero == Rat(0, 1)
\* k <= r, r <= k and r = k for an integer k >= 0 and a rational r >= 0,
\* by division so that no product leaves TLC's integers
IntLeRat(k, r) == k <= r.num \div r.den
RatLeInt(r, k) == (r.num + r.den - 1) \div r.den <= k
RatEqInt(r, k) == r.num % r.den = 0 /\ r.num \div r.den = k

(***************************************************************************)
(* Capability model: src/src/lib.rs                                        *)
(***************************************************************************)
Backends == {"Metal", "WebGPU"}
Backend_all == <<"Metal", "WebGPU">>

has_native_u64(b) == b = "Metal"

Operation_all ==
    <<"u32_add", "u64_add_native", "u64_add_emulated", "field_mul", "field_add",
      "mersenne_field_add", "mersenne_field_mul">>

Operations == {Operation_all[i] : i \in 1..Len(Operation_all)}

requires_native_u64(op) == op = "u64_add_native"

is_emulation_only(op) == op = "u64_add_emulated"

calibrated_ops_per_thread(op) ==
    CASE op = "u32_add" -> 1000
      [] op = "u64_add_native" -> 1000
      [] op = "u64_add_emulated" -> 500
      [] op = "field_mul" -> 20
      [] op = "field_add" -> 20
      [] op = "mersenne_field_add" -> 500
      [] op = "mersenne_field_mul" -> 200

\* the filter closure of available_for, written without the backend's flag
\* for operations that require native u64 (a plausible slip: the flag that
\* names the requirement read as an exclusion)
is_available_excluding_native(b, op) ==
    (~requires_native_u64(op)) /\ ~(is_emulation_only(op) /\ has_native_u64(b))

\* the filter closure of available_for
is_available(b, op) ==
    IF requires_native_u64(op) THEN has_native_u64(b)
    ELSE IF is_emulation_only(op) THEN ~has_native_u64(b)
    ELSE TRUE

available_for(b) ==
    SelectSeq(Operation_all, LAMBDA op : is_available(b, op))

SeqToSet(s) == {s[i] : i \in 1..Len(s)}

(***************************************************************************)
(* Configuration and calibration: src/src/config.rs                        *)
(***************************************************************************)
BenchmarkConfig_default ==
    [ops_per_thread |-> 100, workgroup_size |-> 64, num_workgroups |-> 1024,
     warmup_iterations |-> 3, measurement_iterations |-> 10,
     seed |-> 305419896, auto_calibrate |-> TRUE]

with_workgroup_size(cfg, size) == [cfg EXCEPT !.workgroup_size = size]
with_ops_per_thread(cfg, ops) == [cfg EXCEPT !.ops_per_thread = ops]
with_iterations(cfg, iterations) == [cfg EXCEPT !.measurement_iterations = iterations]
with_auto_calibrate(cfg, enabled) == [cfg EXCEPT !.auto_calibrate = enabled]

\* for_operation with the calibration also switched off in the copy
for_operation_clearing_flag(cfg, op) ==
    IF cfg.auto_calibrate
    THEN [cfg EXCEPT !.ops_per_thread = calibrated_ops_per_thread(op),
                     !.auto_calibrate = FALSE]
    ELSE cfg

\* for_operation scaling the configured count by the calibrated default
for_operation_scaling(cfg, op) ==
    IF cfg.auto_calibrate
    THEN [cfg EXCEPT !.ops_per_thread =
              (cfg.ops_per_thread * calibrated_ops_per_thread(op)) % U32Mod]
    ELSE cfg

for_operation(cfg, op) ==
    IF cfg.auto_calibrate
    THEN [cfg EXCEPT !.ops_per_thread = calibrated_ops_per_thread(op)]
    ELSE cfg

\* u32 as u64 * u32 as u64: never overflows
total_threads(cfg) == cfg.workgroup_size * cfg.num_workgroups

(***************************************************************************)
(* Statistics: src/src/results.rs                                          *)
(***************************************************************************)
\* Duration::as_nanos() as u64: the cast keeps the low 64 bits
as_nanos_u64(d) == d % U64Mod

MapNanos(durations) == [i \in 1..Len(durations) |-> as_nanos_u64(durations[i])]

\* *timings_ns.iter().min().unwrap_or(&0)
min_of(timings_ns) ==
    IF Len(timings_ns) = 0 THEN 0
    ELSE CHOOSE m \in SeqToSet(timings_ns) : \A x \in SeqToSet(timings_ns) : m <= x

\* *timings_ns.iter().max().unwrap_or(&0)
max_of(timings_ns) ==
    IF Len(timings_ns) = 0 THEN 0
    ELSE CHOOSE m \in SeqToSet(timings_ns) : \A x \in SeqToSet(timings_ns) : m >= x

\* timings_ns.iter().sum() in u64, left to right from acc: the wrapped sum
\* and whether an addition overflowed
add_sample(acc, t) ==
    LET s == AddU64(acc.val, t)
    IN [val |-> s.val, overflow |-> acc.overflow \/ s.overflow]

\* (the accumulator is bound once per step, so that it is computed once)
RECURSIVE sum_from(_, _)
sum_from(acc, timings_ns) ==
    CHOOSE sum \in {IF Len(timings_ns) = 0 THEN a
                    ELSE sum_from(add_sample(a, Head(timings_ns)), Tail(timings_ns)) :
                        a \in {acc}} : TRUE

sum_of(timings_ns) == sum_from([val |-> 0, overflow |-> FALSE], timings_ns)

\* the divisor without the .max(1): 0 for an empty sequence
len_unguarded(timings_ns) == Len(timings_ns)

\* timings_ns.len().max(1)
len_max_1(timings_ns) == IF Len(timings_ns) = 0 THEN 1 ELSE Len(timings_ns)

\* sum as f64 / timings_ns.len().max(1) as f64
mean_of(timings_ns) == Rat(sum_of(timings_ns).val, len_max_1(timings_ns))

\* the class of sqrt(sum((t - mean)^2) / len.max(1)): zero exactly when every
\* deviation t - mean is zero, positive otherwise; the quotient is never 0/0
std_dev_of(timings_ns, mean_ns) ==
    IF \A i \in 1..Len(timings_ns) : RatEqInt(mean_ns, timings_ns[i])
    THEN "zero" ELSE "positive"

\* total_threads * ops_per_thread as u64
total_operations_of(threads, ops_per_thread) == MulU64(threads, ops_per_thread)

\* BenchmarkConfig::total_operations:
\* self.total_threads() * self.ops_per_thread as u64
config_total_operations(cfg) == MulU64(total_threads(cfg), cfg.ops_per_thread)

\* GOP/s from the mean sample (rounded down) instead of the minimum
throughput_from_mean(total_operations, timings_ns) ==
    LET m == mean_of(timings_ns)
        mean_floor == m.num \div m.den
    IN IF mean_floor > 0 THEN Rat(total_operations, mean_floor) ELSE RatZero

\* GOP/s: total_operations / (min_ns / 1e9) / 1e9 when min_ns > 0, else 0.0;
\* the two factors 1e9 cancel in the rational
throughput(total_operations, timings_ns) ==
    LET min_ns == min_of(timings_ns)
    IN IF min_ns > 0 THEN Rat(total_operations, min_ns) ELSE RatZero

Panic == [kind |-> "panic"]
Ok(r) == [kind |-> "ok", result |-> r]

\* BenchmarkResult::from_timings.  With overflow checks (a debug build) an
\* overflowing sum or product panics; without them (a release build) it wraps.
from_timings(b, operation, workgroup_size, threads, ops_per_thread, durations) ==
    LET timings_ns == MapNanos(durations)
        min_ns == min_of(timings_ns)
        max_ns == max_of(timings_ns)
        sum == sum_of(timings_ns)
        mean_ns == mean_of(timings_ns)
        std_dev_ns == std_dev_of(timings_ns, mean_ns)
        total_ops == total_operations_of(threads, ops_per_thread)
        gops_per_second == throughput(total_ops.val, timings_ns)
    IN IF overflow_checks /\ (sum.overflow \/ total_ops.overflow)
       THEN Panic
       ELSE Ok([backend |-> b, operation |-> operation,
                workgroup_size |-> workgroup_size, total_threads |-> threads,
                ops_per_thread |-> ops_per_thread, total_operations |-> total_ops.val,
                min_ns |-> min_ns, max_ns |-> max_ns, mean_ns |-> mean_ns,
                std_dev_ns |-> std_dev_ns, gops_per_second |-> gops_per_second])

\* the end of run_benchmark: the samples reduced with the configuration's
\* workgroup size, thread count and operations per thread
run_benchmark_result(b, operation, cfg, durations) ==
    from_timings(b, operation, cfg.workgroup_size, total_threads(cfg),
                 cfg.ops_per_thread, durations)

(***************************************************************************)
(* Kernel names: src/src/metal/runner.rs, src/src/webgpu/runner.rs         *)
(***************************************************************************)
\* the match of the Metal runner: <<name>> for an operation with an arm, <<>>
\* for one without (the arm for U256Add names no operation of the crate)
operation_to_function_name(op) ==
    CASE op = "u32_add" -> <<"bench_u32_add">>
      [] op = "u64_add_native" -> <<"bench_u64_add">>
      [] op = "u64_add_emulated" -> <<"bench_u64_add">>
      [] op = "field_mul" -> <<"bench_field_mul">>
      [] op = "field_add" -> <<"bench_field_add">>
      [] OTHER -> <<>>

\* the match of the WebGPU runner
operation_to_entry_point(op) ==
    CASE op = "u32_add" -> <<"bench_u32_add">>
      [] op = "u64_add_native" -> <<"bench_u64_add">>
      [] op = "u64_add_emulated" -> <<"bench_u64_add">>
      [] op = "field_mul" -> <<"bench_field_mul">>
      [] op = "field_add" -> <<"bench_field_add">>
      [] op = "mersenne_field_add" -> <<"bench_mersenne_field_add">>
      [] op = "mersenne_field_mul" -> <<"bench_mersenne_field_mul">>
      [] OTHER -> <<>>

\* the keys of WebGpuRunner::load_shaders that are operations of the crate
webgpu_shaders ==
    {"u32_add", "u64_add_emulated", "field_mul", "field_add",
     "mersenne_field_add", "mersenne_field_mul"}

\* what run_benchmark of backend b resolves for an operation: the entry point
\* and, for WebGPU, whether self.shaders has a source for it
resolve_kernel(b, op) ==
    IF b = "Metal"
    THEN [entry_point |-> operation_to_function_name(op), shader |-> TRUE]
    ELSE [entry_point |-> operation_to_entry_point(op), shader |-> op \in webgpu_shaders]

(***************************************************************************)
(* Buffers: src/src/metal/runner.rs, src/src/webgpu/runner.rs              *)
(***************************************************************************)
\* 0x9E3779B9 reduced to the modelled u32 width (its low 15 bits, 0x79B9)
HashMultiplier == 31161

wrapping_add(a, b) == (a + b) % U32Mod
wrapping_mul(a, b) == (a * b) % U32Mod

\* seed.wrapping_add(i as u32).wrapping_mul(0x9E3779B9), i counted from 0
input_element(seed, i) ==
    wrapping_mul(wrapping_add(seed, i % U32Mod), HashMultiplier)

\* MetalRunner::create_input_buffer: (0..count)
metal_create_input_buffer(count, seed) ==
    [k \in 1..count |-> input_element(seed, k - 1)]

\* WebGpuRunner::create_input_buffer: (0..16u32), whatever the thread count
webgpu_create_input_buffer(seed) ==
    [k \in 1..16 |-> input_element(seed, k - 1)]

\* BenchParams of both runners
create_params_buffer(cfg) ==
    [iterations |-> cfg.ops_per_thread, seed |-> cfg.seed, pad0 |-> 0, pad1 |-> 0]

\* the buffers run_benchmark of backend b binds for a configuration; the
\* output buffer by its length in elements
create_buffers(b, cfg) ==
    [input |-> IF b = "Metal"
               THEN metal_create_input_buffer(total_threads(cfg), cfg.seed)
               ELSE webgpu_create_input_buffer(cfg.seed),
     output_len |-> total_threads(cfg),
     params |-> create_params_buffer(cfg)]

(***************************************************************************)
(* Values of the variables a specification does not use                    *)
(***************************************************************************)
NoArgs ==
    [backend |-> "none", op |-> "all", workgroup |-> 0, ops |-> 0, iterations |-> 0,
     full |-> FALSE]
NoReport ==
    [device_name |-> "", device_vendor |-> "", results |-> <<>>, timestamp |-> ""]

NoSelection == [backends |-> <<>>, operations |-> <<>>]

\* the variables of the loop over backends, in a session that has none
OuterIdle ==
    /\ selection = NoSelection
    /\ backends = <<>>
    /\ b_idx = 0
    /\ all_reports = <<>>

SessionIdle ==
    /\ mode = "none"
    /\ OuterIdle
    /\ platform = {}
    /\ args = NoArgs
    /\ pc = "idle"
    /\ backend = "none"
    /\ operations = <<>>
    /\ config = BenchmarkConfig_default
    /\ idx = 0
    /\ op_config = BenchmarkConfig_default
    /\ w_done = 0
    /\ t_done = 0
    /\ in_flight = 0
    /\ gpu_failed = FALSE
    /\ timings = <<>>
    /\ run_result = "none"
    /\ attempts = <<>>
    /\ report = NoReport

PureIdle ==
    /\ p_call = [fn |-> "none"]
    /\ p_out = <<>>

(***************************************************************************)
(* The pure functions, each applied to inputs drawn from bounded sets      *)
(***************************************************************************)
MaxSamples == 3

\* sample durations in ns: small ones and ones near the top of u64
PureDurations == {0, 1, 2, 3, U64Mod \div 2, U64Mod - 1}
PureThreads == {0, 65536, U64Mod \div 2}
PureOps == {1, 100, U32Mod - 1}

SeqsUpTo(S, n) == UNION {[1..k -> S] : k \in 0..n}

PureConfigs ==
    [ops_per_thread : {0, 100, 10000}, workgroup_size : {64, 128, 256},
     num_workgroups : {1024}, warmup_iterations : {3},
     measurement_iterations : {0, 10, 100}, seed : {0, 305419896},
     auto_calibrate : BOOLEAN]

\* ten samples of 1 ms
ScenarioTimings == [i \in 1..10 |-> 1000000]

\* configurations handed to run_benchmark: the default sizes, or the largest
\* u32 in every size (the product of the first two fits a u64, that of all
\* three does not), with samples as many as the measurement iterations
RunConfigs ==
    {[ops_per_thread |-> size[3], workgroup_size |-> size[1],
      num_workgroups |-> size[2], warmup_iterations |-> 3,
      measurement_iterations |-> n, seed |-> 305419896, auto_calibrate |-> TRUE] :
        size \in {<<64, 1024, 100>>, <<64, 1024, 0>>,
                  <<U32Mod - 1, U32Mod - 1, U32Mod - 1>>},
        n \in {0, 2, 10}}

RunTimings(cfg) ==
    {t \in {<<>>, <<1, 3>>, <<2, 2>>, ScenarioTimings} :
        Len(t) = cfg.measurement_iterations}

RunCalls ==
    UNION {[fn : {"run_benchmark"}, backend : Backends, operation : {"u32_add"},
            cfg : {cfg}, timings : RunTimings(cfg)] : cfg \in RunConfigs}

\* configurations for the buffers: few threads, seeds up to the largest u32
BufferConfigs ==
    [ops_per_thread : {0, 100}, workgroup_size : {1, 4, 8},
     num_workgroups : {1, 2, 4}, warmup_iterations : {3},
     measurement_iterations : {10}, seed : {0, 7, U32Mod - 1},
     auto_calibrate : {TRUE}]

PureCalls ==
    [fn : {"available_for"}, backend : Backends]
    \cup [fn : {"create_buffers"}, cfg : BufferConfigs]
    \cup [fn : {"for_operation"}, cfg : PureConfigs, op : Operations]
    \cup [fn : {"from_timings"}, backend : Backends, operation : {"u32_add"},
          workgroup_size : {64}, total_threads : PureThreads,
          ops_per_thread : PureOps, timings : SeqsUpTo(PureDurations, MaxSamples)]
    \cup RunCalls
    \cup [fn : {"resolve_kernel"}, backend : Backends, operation : Operations]

PureInit ==
    /\ overflow_checks \in BOOLEAN
    /\ p_call \in PureCalls
    /\ p_out = <<>>
    /\ SessionIdle

CallAvailableFor ==
    /\ p_call.fn = "available_for"
    /\ p_out = <<>>
    /\ p_out' = <<available_for(p_call.backend)>>
    /\ UNCHANGED <<overflow_checks, p_call, session_vars>>

\* for_operation applied to the configuration, then to its own result
CallForOperation ==
    /\ p_call.fn = "for_operation"
    /\ Len(p_out) < 2
    /\ p_out' = Append(p_out,
                       for_operation(IF p_out = <<>> THEN p_call.cfg ELSE p_out[1],
                                     p_call.op))
    /\ UNCHANGED <<overflow_checks, p_call, session_vars>>

CallFromTimings ==
    /\ p_call.fn = "from_timings"
    /\ p_out = <<>>
    /\ p_out' = <<from_timings(p_call.backend, p_call.operation,
                               p_call.workgroup_size, p_call.total_threads,
                               p_call.ops_per_thread, p_call.timings)>>
    /\ UNCHANGED <<overflow_checks, p_call, session_vars>>

\* the samples of a finished run are reduced
CallRunBenchmarkResult ==
    /\ p_call.fn = "run_benchmark"
    /\ p_out = <<>>
    /\ p_out' = <<run_benchmark_result(p_call.backend, p_call.operation, p_call.cfg,
                                       p_call.timings)>>
    /\ UNCHANGED <<overflow_checks, p_call, session_vars>>

CallResolveKernel ==
    /\ p_call.fn = "resolve_kernel"
    /\ p_out = <<>>
    /\ p_out' = <<resolve_kernel(p_call.backend, p_call.operation)>>
    /\ UNCHANGED <<overflow_checks, p_call, session_vars>>

\* the buffers of one configuration on each backend, in Backend::all order
CallCreateBuffers ==
    /\ p_call.fn = "create_buffers"
    /\ Len(p_out) < Len(Backend_all)
    /\ p_out' = Append(p_out, create_buffers(Backend_all[Len(p_out) + 1], p_call.cfg))
    /\ UNCHANGED <<overflow_checks, p_call, session_vars>>

PureNext ==
    \/ CallCreateBuffers
    \/ CallResolveKernel
    \/ CallAvailableFor
    \/ CallForOperation
    \/ CallFromTimings
    \/ CallRunBenchmarkResult

SpecPure == PureInit /\ [][PureNext]_vars

(***************************************************************************)
(* Runners: src/src/metal/runner.rs, src/src/webgpu/runner.rs              *)
(***************************************************************************)
\* Does run_benchmark get past pipeline creation?  Metal: there is no function
\* name for an operation operation_to_function_name does not list, and
\* MetalPipeline::new fails when the metallib lacks the function or the
\* device rejects it (lib_ok, the environment's answer).  WebGPU: the shader
\* lookup fails for an operation without a shader; WebGpuPipeline::new itself
\* always returns Ok.
pipeline_created(b, op, lib_ok) ==
    IF b = "Metal" THEN operation_to_function_name(op) # <<>> /\ lib_ok
    ELSE op \in webgpu_shaders

\* What dispatch hands back once the wait is over.  Metal: commit(),
\* wait_until_completed(), Ok(()) - the command buffer's status is not read.
\* WebGPU: submit, poll(Wait), and the function returns ().
dispatch_returns(gpu_ok) == "Ok"

\* dispatch returning right after the commit, without the wait
no_wait(n) == n

\* command_buffer.wait_until_completed() / device.poll(Maintain::Wait): the
\* command buffers in flight once the call returns
wait_until_completed(n) == 0

\* every dispatch timed and pushed, warmup included
record_sample_always(samples, phase, elapsed) == Append(samples, elapsed)

\* timings.push(start.elapsed()) of the timed loop; the warmup loop keeps nothing
record_sample(samples, phase, elapsed) ==
    IF phase = "timed" THEN Append(samples, elapsed) ELSE samples

\* the phase of the next dispatch of run_benchmark: the warmup loop runs first
phase_of(done_warmup, cfg) ==
    IF done_warmup < cfg.warmup_iterations THEN "warmup" ELSE "timed"

(***************************************************************************)
(* Reports: src/src/results.rs                                             *)
(***************************************************************************)
\* format!("{}", now.as_secs()) for a clock reading in seconds
chrono_lite_timestamp(now) == ToString(now)

\* BenchmarkReport::new, the clock reading it takes being `now`
BenchmarkReport_new(device_name, device_vendor, now) ==
    [device_name |-> device_name, device_vendor |-> device_vendor, results |-> <<>>,
     timestamp |-> chrono_lite_timestamp(now)]

\* the result put in front of the others
add_result_in_front(rep, result) == [rep EXCEPT !.results = <<result>> \o @]

\* BenchmarkReport::add_result: self.results.push(result)
add_result(rep, result) == [rep EXCEPT !.results = Append(@, result)]

(***************************************************************************)
(* The session: src/src/main.rs                                            *)
(***************************************************************************)
MaxIterations == 1

\* what Instant::elapsed can report for one dispatch: nothing measurable, or a tick
SessionDurations == {0, 1}

\* the readings explored in a session of mode m: both in batch mode, a tick
\* alone in the sessions that loop over backends
ElapsedIn(m) == IF m = "batch" THEN SessionDurations ELSE {1}

\* the measurement iterations of --full: 100 in the source, scaled down to
\* the least count that has two samples
FullIterations == 2

\* the command lines of batch mode; --full ignores --iterations, so one value
\* of it is enough there
SessionArgs ==
    {a \in [backend : {"none", "metal", "webgpu", "vulkan"},
            op : {"all", "cuda_add"} \cup Operations,
            workgroup : {64}, ops : {10000}, iterations : 0..MaxIterations,
            full : BOOLEAN] :
        a.full => a.iterations = 0}

\* seconds since the epoch at which a session may create its report
SessionClock == {1700000000, 1700000001}

\* the clock readings explored in a session of mode m: both in batch mode,
\* one in the sessions that loop over backends
ClockIn(m) == IF m = "batch" THEN SessionClock ELSE {1700000000}

\* Backend::available()
Backend_available == SelectSeq(Backend_all, LAMBDA b : b \in platform)

SessionInit ==
    /\ overflow_checks \in BOOLEAN
    /\ PureIdle
    /\ mode = "batch"
    /\ OuterIdle
    /\ platform \in SUBSET Backends
    /\ args \in SessionArgs
    /\ pc = "start"
    /\ backend = "none"
    /\ operations = <<>>
    /\ config = BenchmarkConfig_default
    /\ idx = 0
    /\ op_config = BenchmarkConfig_default
    /\ w_done = 0
    /\ t_done = 0
    /\ in_flight = 0
    /\ gpu_failed = FALSE
    /\ timings = <<>>
    /\ run_result = "none"
    /\ attempts = <<>>
    /\ report = NoReport

run_vars == <<op_config, w_done, t_done, in_flight, gpu_failed, timings, run_result>>

\* the backend named on the command line taken without asking whether it is
\* available
batch_backend_unchecked ==
    CASE args.backend = "metal" -> "Metal"
      [] args.backend = "webgpu" -> "WebGPU"
      [] args.backend = "none" ->
           IF Len(Backend_available) > 0 THEN Backend_available[1] ELSE "none"
      [] OTHER -> "none"

\* the backend run_batch_mode settles on, "none" when it returns early
batch_backend ==
    LET named == CASE args.backend = "metal" -> "Metal"
                   [] args.backend = "webgpu" -> "WebGPU"
                   [] args.backend = "none" ->
                        IF Len(Backend_available) > 0 THEN Backend_available[1] ELSE "none"
                   [] OTHER -> "none"
    IN IF named \in platform THEN named ELSE "none"

\* the operations run_batch_mode settles on, <<"none">> for an unknown name
batch_operations(b) ==
    IF args.op = "all" THEN available_for(b)
    ELSE IF args.op \in Operations THEN <<args.op>>
    ELSE <<"none">>

\* run_batch_mode up to its call of run_benchmarks
BatchStart ==
    /\ pc = "start"
    /\ mode = "batch"
    /\ LET b == batch_backend
           ops == IF b = "none" THEN <<"none">> ELSE batch_operations(b)
       IN IF b = "none" \/ ops = <<"none">>
          THEN /\ pc' = "exit"
               /\ UNCHANGED <<backend, operations, config>>
          ELSE /\ pc' = "create_runner"
               /\ backend' = b
               /\ operations' = ops
               /\ config' =
                      LET sized == with_workgroup_size(BenchmarkConfig_default,
                                                       args.workgroup)
                      IN IF args.full
                         THEN with_auto_calibrate(
                                  with_iterations(with_ops_per_thread(sized, 10000),
                                                  FullIterations),
                                  FALSE)
                         ELSE with_iterations(with_ops_per_thread(sized, args.ops),
                                              args.iterations)
    /\ UNCHANGED <<overflow_checks, pure_vars, outer_vars, platform, args, idx, run_vars,
                   attempts, report>>

\* run_metal_benchmarks / run_webgpu_benchmarks up to the loop: the runner is
\* created (and, for Metal, the library loaded) or an empty report is returned
CreateRunner ==
    /\ pc = "create_runner"
    /\ \E runner_ok \in BOOLEAN, now \in ClockIn(mode) :
          IF runner_ok
          THEN /\ report' = BenchmarkReport_new("GPU", backend, now)
               /\ idx' = 1
               /\ pc' = "loop"
          ELSE /\ report' = BenchmarkReport_new("Unknown", backend, now)
               /\ idx' = idx
               /\ pc' = "done"
    /\ UNCHANGED <<overflow_checks, pure_vars, outer_vars, platform, args, backend, operations,
                   config, run_vars, attempts>>

\* where the loop goes after a failed run_benchmark, were it to give up
next_index_stopping(i, n) == n + 1

\* where the loop goes after a failed run_benchmark, were it to try again
next_index_retrying(i, n) == i

\* where `for op in operations` goes after a failed run_benchmark: the Err arm
\* prints and falls through to the next operation
next_index_after_failure(i, n) == i + 1

\* the loop body up to the first dispatch: for_operation, then run_benchmark's
\* entry point, pipeline and buffers
BeginRun ==
    /\ pc = "loop"
    /\ idx <= Len(operations)
    /\ \E lib_ok \in BOOLEAN :
          IF pipeline_created(backend, operations[idx], lib_ok)
          THEN /\ pc' = "run"
               /\ op_config' = for_operation(config, operations[idx])
               /\ w_done' = 0
               /\ t_done' = 0
               /\ timings' = <<>>
               /\ gpu_failed' = FALSE
               /\ run_result' = "none"
               /\ UNCHANGED <<idx, attempts, in_flight>>
          ELSE /\ pc' = "loop"
               /\ op_config' = for_operation(config, operations[idx])
               /\ run_result' = "Err"
               /\ attempts' = Append(attempts, [op |-> operations[idx], ok |-> FALSE])
               /\ idx' = next_index_after_failure(idx, Len(operations))
               /\ UNCHANGED <<w_done, t_done, timings, gpu_failed, in_flight>>
    /\ UNCHANGED <<overflow_checks, pure_vars, outer_vars, platform, args, backend, operations,
                   config, report>>

\* dispatch, first half: the command buffer is committed
Submit ==
    /\ pc = "run"
    /\ \/ w_done < op_config.warmup_iterations
       \/ t_done < op_config.measurement_iterations
    /\ in_flight' = in_flight + 1
    /\ pc' = "wait"
    /\ UNCHANGED <<overflow_checks, pure_vars, outer_vars, platform, args, backend, operations,
                   config, idx, op_config, w_done, t_done, gpu_failed, timings,
                   run_result, attempts, report>>

\* dispatch, second half: the wait returns, dispatch returns, and the loop
\* that called it goes on (or `?` leaves run_benchmark with the error)
Complete ==
    /\ pc = "wait"
    /\ \E gpu_ok \in BOOLEAN, elapsed \in ElapsedIn(mode) :
          LET phase == phase_of(w_done, op_config)
          IN /\ in_flight' = wait_until_completed(in_flight)
             /\ gpu_failed' = (gpu_failed \/ ~gpu_ok)
             /\ IF dispatch_returns(gpu_ok) = "Err"
                THEN /\ pc' = "loop"
                     /\ run_result' = "Err"
                     /\ attempts' = Append(attempts, [op |-> operations[idx], ok |-> FALSE])
                     /\ idx' = next_index_after_failure(idx, Len(operations))
                     /\ UNCHANGED <<w_done, t_done, timings>>
                ELSE /\ pc' = "run"
                     /\ w_done' = IF phase = "warmup" THEN w_done + 1 ELSE w_done
                     /\ t_done' = IF phase = "timed" THEN t_done + 1 ELSE t_done
                     /\ timings' = record_sample(timings, phase, elapsed)
                     /\ UNCHANGED <<run_result, attempts, idx>>
    /\ UNCHANGED <<overflow_checks, pure_vars, outer_vars, platform, args, backend, operations,
                   config, op_config, report>>

\* both loops are over: from_timings, Ok(result), and the Ok arm's add_result
FinishRun ==
    /\ pc = "run"
    /\ w_done >= op_config.warmup_iterations
    /\ t_done >= op_config.measurement_iterations
    /\ LET r == from_timings(backend, operations[idx], op_config.workgroup_size,
                             total_threads(op_config), op_config.ops_per_thread, timings)
       IN IF r.kind = "panic"
          THEN /\ pc' = "panicked"
               /\ UNCHANGED <<run_result, attempts, idx, report>>
          ELSE /\ pc' = "loop"
               /\ run_result' = "Ok"
               /\ report' = add_result(report, r.result)
               /\ attempts' = Append(attempts, [op |-> operations[idx], ok |-> TRUE])
               /\ idx' = idx + 1
    /\ UNCHANGED <<overflow_checks, pure_vars, outer_vars, platform, args, backend, operations,
                   config, op_config, w_done, t_done, in_flight, gpu_failed, timings>>

\* the loop is exhausted: the report is returned
SessionReturn ==
    /\ pc = "loop"
    /\ idx > Len(operations)
    /\ pc' = "done"
    /\ UNCHANGED <<overflow_checks, pure_vars, outer_vars, platform, args, backend, operations,
                   config, idx, run_vars, attempts, report>>

Init == SessionInit

Next ==
    \/ BatchStart
    \/ CreateRunner
    \/ BeginRun
    \/ Submit
    \/ Complete
    \/ FinishRun
    \/ SessionReturn

Spec == Init /\ [][Next]_vars

(***************************************************************************)
(* Comparison and merging of reports: src/src/reporter.rs                  *)
(***************************************************************************)
\* a / b and a > 0 for f64 values held as rationals
RatDiv(a, b) == Rat(a.num * b.den, a.den * b.num)
RatPositive(a) == a.num > 0 /\ a.den > 0

\* no equivalents for any name
get_equivalent_ops_none(op) == <<>>

get_equivalent_ops(op) ==
    IF op \in {"u64_add_native", "u64_add_emulated", "u64_add"}
    THEN <<"u64_add_native", "u64_add_emulated">>
    ELSE <<>>

get_display_name(op) ==
    IF op \in {"u64_add_native", "u64_add_emulated"} THEN "u64_add" ELSE op

get_operation_order(op) ==
    CASE op = "u32_add" -> 0
      [] op = "u64_add" -> 1
      [] op = "m31_field_add" -> 2
      [] op = "m31_field_mul" -> 3
      [] op = "bn254_field_add" -> 4
      [] op = "bn254_field_mul" -> 5
      [] OTHER -> 100

\* the keys get_operation_order can return, ascending
operation_orders == <<0, 1, 2, 3, 4, 5, 100>>

\* the operation names of all results, report by report
RECURSIVE result_names(_)
result_names(reports) ==
    IF reports = <<>> THEN <<>>
    ELSE [i \in 1..Len(Head(reports).results) |-> Head(reports).results[i].operation]
         \o result_names(Tail(reports))

\* the first loop of print_comparison: canonical names, first occurrence kept
RECURSIVE collect_ops(_, _)
collect_ops(all_ops, names) ==
    IF names = <<>> THEN all_ops
    ELSE LET canonical == get_display_name(Head(names))
         IN collect_ops(IF canonical \in SeqToSet(all_ops) THEN all_ops
                        ELSE Append(all_ops, canonical),
                        Tail(names))

\* all_ops.sort_by_key(get_operation_order): a stable sort
RECURSIVE sort_from(_, _)
sort_from(all_ops, k) ==
    IF k > Len(operation_orders) THEN <<>>
    ELSE SelectSeq(all_ops, LAMBDA op : get_operation_order(op) = operation_orders[k])
         \o sort_from(all_ops, k + 1)

sort_by_key(all_ops) == sort_from(all_ops, 1)

\* report.results.iter().find(..): <<result>> for the first match, <<>> for none
find_result(results, op, equivalents) ==
    LET hits == SelectSeq(results, LAMBDA r : r.operation = op
                                       \/ r.operation \in SeqToSet(equivalents))
    IN IF hits = <<>> THEN <<>> ELSE <<Head(hits)>>

\* the ratio shown whatever the second value is
ratio_unguarded(n, gops_values) ==
    IF n = 2 /\ gops_values[1] # <<>> /\ gops_values[2] # <<>>
    THEN <<RatDiv(gops_values[1][1], gops_values[2][1])>>
    ELSE <<>>

\* the ratio of a row of n reports: <<v1 / v2>> when it is printed
ratio_of(n, gops_values) ==
    IF n = 2 /\ gops_values[1] # <<>> /\ gops_values[2] # <<>>
       /\ RatPositive(gops_values[2][1])
    THEN <<RatDiv(gops_values[1][1], gops_values[2][1])>>
    ELSE <<>>

\* one line of the table: the key, a value or "-" per report, the ratio
comparison_row(reports, op) ==
    LET equivalents == get_equivalent_ops(op)
        gops_values ==
            [j \in 1..Len(reports) |->
                LET result == find_result(reports[j].results, op, equivalents)
                IN IF result = <<>> THEN <<>> ELSE <<result[1].gops_per_second>>]
    IN [op |-> op, gops_values |-> gops_values,
        ratio |-> ratio_of(Len(reports), gops_values)]

\* the rows print_comparison prints, top to bottom
print_comparison(reports) ==
    LET all_ops == sort_by_key(collect_ops(<<>>, result_names(reports)))
    IN [i \in 1..Len(all_ops) |-> comparison_row(reports, all_ops[i])]

\* strs.join(sep)
RECURSIVE join(_, _)
join(strs, sep) ==
    IF strs = <<>> THEN ""
    ELSE IF Len(strs) = 1 THEN strs[1]
    ELSE strs[1] \o sep \o join(Tail(strs), sep)

\* combined.add_result(result.clone()) for each result of a sequence, in order
RECURSIVE add_results(_, _)
add_results(combined, results) ==
    IF results = <<>> THEN combined
    ELSE add_results(add_result(combined, Head(results)), Tail(results))

\* the results taken last to first
results_backwards(results) ==
    [i \in 1..Len(results) |-> results[Len(results) + 1 - i]]

\* `for result in &report.results`: the order in which a report's results
\* are visited
results_in_order(results) == results

\* the two loops of merge_reports: report by report, result by result
RECURSIVE merge_into(_, _)
merge_into(combined, reports) ==
    IF reports = <<>> THEN combined
    ELSE merge_into(add_results(combined, results_in_order(Head(reports).results)),
                    Tail(reports))

\* the reports taken last to first
reports_reversed(reports) ==
    [i \in 1..Len(reports) |-> reports[Len(reports) + 1 - i]]

\* `for report in reports`: the order in which merge_reports visits them
reports_in_order(reports) == reports

\* merge_reports, the clock reading of its BenchmarkReport::new being `now`
merge_reports(reports, now) ==
    LET device_names == [i \in 1..Len(reports) |-> reports[i].device_name]
        vendors == [i \in 1..Len(reports) |-> reports[i].device_vendor]
    IN merge_into(BenchmarkReport_new(join(device_names, " + "),
                                      join(vendors, " + "), now),
                  reports_in_order(reports))

\* BenchmarkResult::min_ms
min_ms(result) == Rat(result.min_ns, 1000000)

\* the overhead given for any native result
native_is_anything(native) == TRUE

\* the guard of u64_overhead: native.gops_per_second > 0.0
native_is_positive(native) == RatPositive(native.gops_per_second)

\* BenchmarkReport::u64_overhead: <<ratio>> for Some(ratio), <<>> for None
u64_overhead(rep) ==
    LET native == find_result(rep.results, "u64_add_native", <<>>)
        emulated == find_result(rep.results, "u64_add_emulated", <<>>)
    IN IF native = <<>> \/ emulated = <<>> THEN <<>>
       ELSE IF native_is_positive(native[1])
            THEN <<RatDiv(min_ms(emulated[1]), min_ms(native[1]))>>
            ELSE <<>>

\* format!("{:.4}", c) for c >= 0: the integer part, a point and the four
\* decimals of c rounded to the nearest ten-thousandth
format_4(c) ==
    LET scaled == (2 * 10000 * c.num + c.den) \div (2 * c.den)
        frac == scaled % 10000
        pad == IF frac < 10 THEN "000" ELSE IF frac < 100 THEN "00"
               ELSE IF frac < 1000 THEN "0" ELSE ""
    IN ToString(scaled \div 10000) \o "." \o pad \o ToString(frac)

\* export_csv: the last field of the row of result r, read from the result's
\* optional cycles_per_op
export_csv_cycles(r) ==
    IF r.cycles_per_op = <<>> THEN "" ELSE format_4(r.cycles_per_op[1])

(***************************************************************************)
(* The report functions, each applied to inputs drawn from bounded sets    *)
(***************************************************************************)
MaxResults == 2

\* clock readings in seconds since the epoch
ReportClock == {1700000000, 1700000001}

\* the results a run of backend b can return for an operation: the calibrated
\* configuration and one of the given sample sequences
ResultsOf(b, ops, samples) ==
    {run_benchmark_result(b, op, for_operation(BenchmarkConfig_default, op), t).result :
        op \in ops, t \in samples}

\* one sample of 0 ns or of 2 ns
ZeroOrTwo == {<<0>>, <<2>>}

\* a report as a session of backend b builds it
ReportOf(b, results, now) ==
    add_results(BenchmarkReport_new("GPU", b, now), results)

ReportsOf(b, ops, samples, n) ==
    {ReportOf(b, results, 1700000000) :
        results \in SeqsUpTo(ResultsOf(b, ops, samples), n)}

\* operations compared: the baseline add, the wide add of the backend, and
\* the two large-field operations
ComparisonOps(b) ==
    {op \in SeqToSet(available_for(b)) : op \notin {"mersenne_field_add", "mersenne_field_mul"}}

\* what print_comparison is given: no report, one, one per backend, or three
\* reports of at most one result
ComparisonInputs ==
    {<<>>}
    \cup {<<a>> : a \in ReportsOf("Metal", ComparisonOps("Metal"), {<<1>>}, MaxResults)}
    \cup {<<a, b>> :
              a \in ReportsOf("Metal", ComparisonOps("Metal"), {<<1>>}, MaxResults),
              b \in ReportsOf("WebGPU", ComparisonOps("WebGPU"), ZeroOrTwo, MaxResults)}
    \cup {<<a, b, c>> :
              a \in ReportsOf("Metal", {"u32_add", "u64_add_native"}, {<<1>>}, 1),
              b \in ReportsOf("WebGPU", {"u32_add", "u64_add_emulated"}, ZeroOrTwo, 1),
              c \in ReportsOf("WebGPU", {"u32_add"}, {<<2>>}, 1)}

\* a report that may hold both wide adds, as a merged report does
OverheadInputs ==
    {add_results(BenchmarkReport_new("GPU + GPU", "Metal + WebGPU", 1700000000), results) :
        results \in SeqsUpTo(ResultsOf("Metal", {"u32_add", "u64_add_native"}, ZeroOrTwo)
                             \cup ResultsOf("WebGPU", {"u64_add_emulated"}, ZeroOrTwo),
                             MaxResults)}

MergeReports ==
    ReportsOf("Metal", {"u64_add_native"}, ZeroOrTwo, MaxResults)
    \cup ReportsOf("WebGPU", {"u64_add_emulated"}, ZeroOrTwo, MaxResults)

ReportCalls ==
    [fn : {"print_comparison"}, reports : ComparisonInputs]
    \cup [fn : {"u64_overhead"}, report : OverheadInputs]
    \cup [fn : {"merge_reports"}, reports : SeqsUpTo(MergeReports, 3)]
    \cup [fn : {"add_result"}, report : MergeReports,
          result : ResultsOf("Metal", {"u32_add", "field_mul"}, ZeroOrTwo)]

ReportInit ==
    /\ overflow_checks \in BOOLEAN
    /\ p_call \in ReportCalls
    /\ p_out = <<>>
    /\ SessionIdle

\* the same reports with each report's results in the opposite order
results_reversed(reports) ==
    [j \in 1..Len(reports) |->
        [reports[j] EXCEPT !.results = [i \in 1..Len(@) |-> @[Len(@) + 1 - i]]]]

\* print_comparison on the reports, then on the same reports with their
\* results inserted in the opposite order
CallPrintComparison ==
    /\ p_call.fn = "print_comparison"
    /\ Len(p_out) < 2
    /\ p_out' = Append(p_out,
                       print_comparison(IF p_out = <<>> THEN p_call.reports
                                        ELSE results_reversed(p_call.reports)))
    /\ UNCHANGED <<overflow_checks, p_call, session_vars>>

CallU64Overhead ==
    /\ p_call.fn = "u64_overhead"
    /\ p_out = <<>>
    /\ p_out' = <<u64_overhead(p_call.report)>>
    /\ UNCHANGED <<overflow_checks, p_call, session_vars>>

\* merge_reports on the list; for three reports A, B, C also
\* merge([merge([A, B]), C]) and merge([A, merge([B, C])])
CallMergeReports ==
    /\ p_call.fn = "merge_reports"
    /\ p_out = <<>>
    /\ \E now \in ReportClock :
          LET rs == p_call.reports
          IN p_out' =
                 IF Len(rs) = 3
                 THEN <<merge_reports(rs, now),
                        merge_reports(<<merge_reports(<<rs[1], rs[2]>>, now), rs[3]>>, now),
                        merge_reports(<<rs[1], merge_reports(<<rs[2], rs[3]>>, now)>>, now)>>
                 ELSE <<merge_reports(rs, now)>>
    /\ UNCHANGED <<overflow_checks, p_call, session_vars>>

\* a later add_result on the merged report (kept after the merge's outputs)
CallAddToMerged ==
    /\ p_call.fn = "merge_reports"
    /\ Len(p_out) \in {1, 3}
    /\ \E result \in ResultsOf("Metal", {"u32_add"}, ZeroOrTwo) :
          p_out' = Append(p_out, add_result(p_out[1], result))
    /\ UNCHANGED <<overflow_checks, p_call, session_vars>>

CallAddResult ==
    /\ p_call.fn = "add_result"
    /\ p_out = <<>>
    /\ p_out' = <<add_result(p_call.report, p_call.result)>>
    /\ UNCHANGED <<overflow_checks, p_call, session_vars>>

ReportNext ==
    \/ CallPrintComparison
    \/ CallU64Overhead
    \/ CallMergeReports
    \/ CallAddToMerged
    \/ CallAddResult

SpecReport == ReportInit /\ [][ReportNext]_vars

(***************************************************************************)
(* Comparison and interactive mode: src/src/main.rs, src/src/tui.rs        *)
(***************************************************************************)
\* the operation names in the order of &str comparison
names_ascending ==
    <<"field_add", "field_mul", "mersenne_field_add", "mersenne_field_mul",
      "u32_add", "u64_add_emulated", "u64_add_native">>

\* backends.iter().flat_map(|b| Operation::available_for(*b)).collect()
RECURSIVE flat_map_available(_)
flat_map_available(bs) ==
    IF bs = <<>> THEN <<>>
    ELSE available_for(Head(bs)) \o flat_map_available(Tail(bs))

\* operations.sort_by_key(|op| op.name()): a stable sort
RECURSIVE sort_by_name_from(_, _)
sort_by_name_from(ops, k) ==
    IF k > Len(names_ascending) THEN <<>>
    ELSE SelectSeq(ops, LAMBDA op : op = names_ascending[k])
         \o sort_by_name_from(ops, k + 1)

sort_by_name(ops) == sort_by_name_from(ops, 1)

\* Vec::dedup: of each run of equal neighbours the first is kept
RECURSIVE dedup(_)
dedup(ops) ==
    IF Len(ops) <= 1 THEN ops
    ELSE IF ops[1] = ops[2] THEN dedup(Tail(ops))
    ELSE <<ops[1]>> \o dedup(Tail(ops))

\* the operations of the first selected backend only
first_backend_operations(bs) == available_for(bs[1])

\* quick_run: the operations of the selection
quick_run_operations(bs) == dedup(sort_by_name(flat_map_available(bs)))

\* what MultiSelect::interact can return over the items of Backend::all():
\* the checked indices in ascending order
BackendSelections == {<<>>, <<1>>, <<2>>, <<1, 2>>}

\* select_backends: <<backends>> for Some(backends), <<>> for None;
\* interact_ok is whether the prompt returned Ok
select_backends(selections, interact_ok) ==
    LET available == Backend_available
        chosen == SelectSeq([i \in 1..Len(selections) |-> Backend_all[selections[i]]],
                            LAMBDA b : b \in platform)
    IN IF available = <<>> THEN <<>>
       ELSE IF ~interact_ok THEN <<>>
       ELSE IF selections = <<>> THEN <<(<<available[1]>>)>>
       ELSE IF chosen = <<>> THEN <<>>
       ELSE <<chosen>>

\* the configuration run_comparison_mode builds from the command line
comparison_config(a) ==
    LET sized == with_workgroup_size(BenchmarkConfig_default, a.workgroup)
    IN IF a.full
       THEN with_auto_calibrate(
                with_iterations(with_ops_per_thread(sized, 10000), FullIterations),
                FALSE)
       ELSE with_iterations(with_ops_per_thread(sized, a.ops), a.iterations)

\* the operations the loop of run_comparison_mode settles on for backend b,
\* <<"none">> where it continues with the next backend
comparison_operations(b) ==
    IF args.op = "all" THEN available_for(b)
    ELSE IF args.op \in Operations /\ args.op \in SeqToSet(available_for(b))
         THEN <<args.op>>
    ELSE <<"none">>

\* the operations the loop of run_interactive_mode passes on for backend b
interactive_operations(b) ==
    SelectSeq(available_for(b), LAMBDA op : op \in SeqToSet(selection.operations))

\* the command lines of the sessions explored mode by mode: batch mode with
\* one named operation, comparison mode with all or one, interactive mode
\* with none read
ModeArgs(m) ==
    IF m = "interactive" THEN {[NoArgs EXCEPT !.workgroup = 64, !.ops = 10000]}
    ELSE {a \in SessionArgs :
             /\ m = "batch" =>
                    a.op \in {"u32_add", "u64_add_native", "u64_add_emulated", "cuda_add"}
             /\ m = "compare" =>
                    /\ a.backend = "none"
                    /\ a.op \in {"all", "u64_add_emulated", "cuda_add"}}

Modes == {"batch", "compare", "interactive"}

ModesInit ==
    /\ overflow_checks \in BOOLEAN
    /\ PureIdle
    /\ mode \in Modes
    /\ OuterIdle
    /\ platform \in SUBSET Backends
    /\ args \in ModeArgs(mode)
    /\ pc = "start"
    /\ backend = "none"
    /\ operations = <<>>
    /\ config = BenchmarkConfig_default
    /\ idx = 0
    /\ op_config = BenchmarkConfig_default
    /\ w_done = 0
    /\ t_done = 0
    /\ in_flight = 0
    /\ gpu_failed = FALSE
    /\ timings = <<>>
    /\ run_result = "none"
    /\ attempts = <<>>
    /\ report = NoReport

inner_vars == <<idx, run_vars, attempts, report>>

\* run_comparison_mode up to its loop
ComparisonStart ==
    /\ pc = "start"
    /\ mode = "compare"
    /\ IF Backend_available = <<>>
       THEN /\ pc' = "exit"
            /\ UNCHANGED <<config, backends, b_idx>>
       ELSE /\ pc' = "next"
            /\ config' = comparison_config(args)
            /\ backends' = Backend_available
            /\ b_idx' = 1
    /\ UNCHANGED <<overflow_checks, pure_vars, platform, args, mode, selection,
                   all_reports, backend, operations, inner_vars>>

\* run_interactive_mode up to its loop: tui.quick_run()
InteractiveStart ==
    /\ pc = "start"
    /\ mode = "interactive"
    /\ \E selections \in BackendSelections, interact_ok \in BOOLEAN :
          LET selected == select_backends(selections, interact_ok)
          IN IF selected = <<>>
             THEN /\ pc' = "exit"
                  /\ UNCHANGED <<config, selection, backends, b_idx>>
             ELSE /\ pc' = "next"
                  /\ selection' = [backends |-> selected[1],
                                   operations |-> quick_run_operations(selected[1])]
                  /\ config' = BenchmarkConfig_default
                  /\ backends' = selected[1]
                  /\ b_idx' = 1
    /\ UNCHANGED <<overflow_checks, pure_vars, platform, args, mode, all_reports,
                   backend, operations, inner_vars>>

\* the head of the loop over backends: the operations are settled and
\* run_benchmarks is called, or the loop continues with the next backend
NextBackend ==
    /\ pc = "next"
    /\ b_idx <= Len(backends)
    /\ LET b == backends[b_idx]
           ops == IF mode = "compare" THEN comparison_operations(b)
                  ELSE interactive_operations(b)
       IN IF ops = <<"none">>
          THEN /\ b_idx' = b_idx + 1
               /\ UNCHANGED <<pc, backend, operations, attempts>>
          ELSE /\ pc' = "create_runner"
               /\ backend' = b
               /\ operations' = ops
               /\ attempts' = <<>>
               /\ UNCHANGED b_idx
    /\ UNCHANGED <<overflow_checks, pure_vars, platform, args, mode, selection,
                   backends, all_reports, config, idx, run_vars, report>>

\* run_benchmarks has returned: all_reports.push(report)
PushReport ==
    /\ pc = "done"
    /\ mode \in {"compare", "interactive"}
    /\ all_reports' = Append(all_reports, report)
    /\ b_idx' = b_idx + 1
    /\ pc' = "next"
    /\ UNCHANGED <<overflow_checks, pure_vars, platform, args, mode, selection,
                   backends, backend, operations, config, inner_vars>>

\* the loop over backends is exhausted: the comparison is printed and the
\* function returns
LoopReturn ==
    /\ pc = "next"
    /\ b_idx > Len(backends)
    /\ pc' = "finished"
    /\ UNCHANGED <<overflow_checks, pure_vars, platform, args, outer_vars, backend,
                   operations, config, inner_vars>>

ModesNext ==
    \/ BatchStart
    \/ ComparisonStart
    \/ InteractiveStart
    \/ NextBackend
    \/ CreateRunner
    \/ BeginRun
    \/ Submit
    \/ Complete
    \/ FinishRun
    \/ SessionReturn
    \/ PushReport
    \/ LoopReturn

SpecModes == ModesInit /\ [][ModesNext]_vars

\* main is one thread: whenever a step is possible it is eventually taken, a
\* dispatch that was committed eventually completing or failing
SpecModesFair == SpecModes /\ WF_vars(ModesNext)

(***************************************************************************)
(* Properties                                                              *)
(***************************************************************************)
\* the pure call f has returned
Returned(f) == p_call.fn = f /\ Len(p_out) >= 1

\* C1, as stated: an operation is in available_for(b) if and only if it does
\* not require native wide arithmetic and it is not emulation-only on a
\* backend with native wide arithmetic.
C1_AvailableIffNotNative ==
    Returned("available_for") =>
        \A o \in Operations :
            o \in SeqToSet(p_out[1]) <=>
                /\ ~requires_native_u64(o)
                /\ ~(is_emulation_only(o) /\ has_native_u64(p_call.backend))

\* C1, amended: an operation is in available_for(b) if and only if it does not
\* require native wide arithmetic or b has it, and it is not emulation-only on
\* a backend with native wide arithmetic.
C1_AvailableIffSupported ==
    Returned("available_for") =>
        \A o \in Operations :
            o \in SeqToSet(p_out[1]) <=>
                /\ requires_native_u64(o) => has_native_u64(p_call.backend)
                /\ ~(is_emulation_only(o) /\ has_native_u64(p_call.backend))

\* available_for(Metal) has returned, with the native wide add in it and the
\* emulated one left out
C1_Witness ==
    /\ Returned("available_for")
    /\ p_call.backend = "Metal"
    /\ "u64_add_native" \in SeqToSet(p_out[1])
    /\ "u64_add_emulated" \notin SeqToSet(p_out[1])

\* C6: for_operation(cfg, op) has op's calibrated default as ops_per_thread
\* when cfg.auto_calibrate is set and cfg.ops_per_thread otherwise, every
\* other field is that of cfg, and cfg itself is left as it was.
C6_ForOperationFrame ==
    /\ [](Returned("for_operation") =>
            LET cfg == p_call.cfg
                r == p_out[1]
            IN /\ r.ops_per_thread =
                      IF cfg.auto_calibrate THEN calibrated_ops_per_thread(p_call.op)
                      ELSE cfg.ops_per_thread
               /\ r.workgroup_size = cfg.workgroup_size
               /\ r.num_workgroups = cfg.num_workgroups
               /\ r.warmup_iterations = cfg.warmup_iterations
               /\ r.measurement_iterations = cfg.measurement_iterations
               /\ r.seed = cfg.seed
               /\ r.auto_calibrate = cfg.auto_calibrate)
    /\ [][p_call.fn = "for_operation" => p_call' = p_call]_vars

\* for_operation has replaced a configured 100 by field_mul's calibrated 20
C6_Witness ==
    /\ Returned("for_operation")
    /\ p_call.op = "field_mul"
    /\ p_call.cfg.auto_calibrate
    /\ p_call.cfg.ops_per_thread = 100
    /\ p_out[1].ops_per_thread = 20

\* C7: for_operation is idempotent for a fixed operation:
\* for_operation(for_operation(cfg, op), op) = for_operation(cfg, op), field by field.
C7_ForOperationIdempotent ==
    (p_call.fn = "for_operation" /\ Len(p_out) = 2) =>
        \A f \in DOMAIN p_out[1] : p_out[2][f] = p_out[1][f]

\* for_operation has been applied twice to a calibrating configuration whose
\* own count differs from the calibrated one
C7_Witness ==
    /\ p_call.fn = "for_operation"
    /\ Len(p_out) = 2
    /\ p_call.cfg.auto_calibrate
    /\ p_out[2].ops_per_thread # p_call.cfg.ops_per_thread

\* C8, as stated: from_timings never returns a BenchmarkResult for an empty
\* sample sequence.
C8_EmptyIsContractError ==
    (Returned("from_timings") /\ p_call.timings = <<>>) => p_out[1].kind # "ok"

\* C8, amended: for an empty sample sequence from_timings returns a
\* BenchmarkResult whose min_ns, max_ns, mean_ns, std_dev_ns and
\* gops_per_second are all 0; the call fails only by the overflow panic of
\* total_threads * ops_per_thread in a build with overflow checks.
C8_EmptyGivesZeroResult ==
    (Returned("from_timings") /\ p_call.timings = <<>>) =>
        LET overflows == MulU64(p_call.total_threads, p_call.ops_per_thread).overflow
        IN /\ p_out[1].kind = "ok" <=> ~(overflow_checks /\ overflows)
           /\ p_out[1].kind = "ok" =>
                 /\ p_out[1].result.min_ns = 0
                 /\ p_out[1].result.max_ns = 0
                 /\ p_out[1].result.mean_ns = RatZero
                 /\ p_out[1].result.std_dev_ns = "zero"
                 /\ p_out[1].result.gops_per_second = RatZero

\* from_timings has returned a result for an empty sample sequence and a
\* positive operation count
C8_Witness ==
    /\ Returned("from_timings")
    /\ p_call.timings = <<>>
    /\ p_out[1].kind = "ok"
    /\ p_out[1].result.total_operations = 6553600

\* C9: for every non-empty sample sequence the result has min_ns <= mean_ns
\* <= max_ns and std_dev_ns >= 0, min_ns and max_ns being the extrema; for
\* samples all equal to d, std_dev_ns = 0 and mean_ns = min_ns = max_ns = d.
C9_MeanBetweenExtrema ==
    (Returned("from_timings") /\ p_call.timings # <<>> /\ p_out[1].kind = "ok") =>
        LET ts == p_call.timings
            r == p_out[1].result
        IN /\ \E i \in 1..Len(ts) : r.min_ns = ts[i]
           /\ \E i \in 1..Len(ts) : r.max_ns = ts[i]
           /\ \A i \in 1..Len(ts) : r.min_ns <= ts[i] /\ ts[i] <= r.max_ns
           /\ IntLeRat(r.min_ns, r.mean_ns)
           /\ RatLeInt(r.mean_ns, r.max_ns)
           /\ r.std_dev_ns \in {"zero", "positive"}
           /\ (\A i \in 1..Len(ts) : ts[i] = ts[1]) =>
                 /\ r.std_dev_ns = "zero"
                 /\ RatEqInt(r.mean_ns, ts[1])
                 /\ r.min_ns = ts[1]
                 /\ r.max_ns = ts[1]

\* C10: throughput comes from the minimum sample: gops_per_second is
\* total_operations / min_ns when min_ns > 0 and exactly 0 when min_ns = 0,
\* and the call never fails on the division (its only failure is an overflow
\* panic of the sum or the product in a build with overflow checks).
C10_ThroughputFromMin ==
    Returned("from_timings") =>
        LET ts == MapNanos(p_call.timings)
        IN IF p_out[1].kind = "ok"
           THEN LET r == p_out[1].result
                IN /\ \A i \in 1..Len(ts) : r.min_ns <= ts[i]
                   /\ (ts = <<>> /\ r.min_ns = 0) \/ (\E i \in 1..Len(ts) : r.min_ns = ts[i])
                   /\ r.gops_per_second.den # 0
                   /\ r.gops_per_second =
                          IF r.min_ns > 0 THEN Rat(r.total_operations, r.min_ns)
                          ELSE RatZero
           ELSE /\ overflow_checks
                /\ \/ sum_of(ts).overflow
                   \/ MulU64(p_call.total_threads, p_call.ops_per_thread).overflow

\* from_timings has reduced the samples 3, 1 ns of 6553600 operations: the
\* minimum 1 differs from the mean 2, and the throughput is 6553600 / 1
C10_Witness ==
    /\ Returned("from_timings")
    /\ p_call.timings = <<3, 1>>
    /\ p_out[1].kind = "ok"
    /\ p_out[1].result.min_ns = 1
    /\ p_out[1].result.mean_ns = Rat(4, 2)
    /\ p_out[1].result.gops_per_second = Rat(6553600, 1)

\* C2: run_benchmark is all-or-nothing: once a warmup or measurement dispatch
\* has failed on the GPU the run is over with an error and no later dispatch is
\* issued; a BenchmarkResult is returned only when every dispatch succeeded.
C2_AllOrNothing ==
    /\ gpu_failed => (run_result = "Err" /\ pc \notin {"run", "wait"})
    /\ run_result = "Ok" => ~gpu_failed

\* C3: a failing run_benchmark does not stop the session: the operations are
\* attempted in order and, once the session returns, all of them have been;
\* the report holds one result per operation that succeeded, in execution
\* order, and none for an operation that failed.
C3_SessionContinues ==
    LET succeeded == SelectSeq(attempts, LAMBDA a : a.ok)
    IN /\ Len(attempts) <= Len(operations)
       /\ \A i \in 1..Len(attempts) : attempts[i].op = operations[i]
       /\ pc = "loop" => idx = Len(attempts) + 1
       /\ (pc = "done" /\ idx > 0) => Len(attempts) = Len(operations)
       /\ Len(report.results) = Len(succeeded)
       /\ \A i \in 1..Len(succeeded) : report.results[i].operation = succeeded[i].op

\* the session has returned after field_mul failed and the later field_add
\* succeeded: the report has field_add and not field_mul
C3_Witness ==
    /\ pc = "done"
    /\ \E i, j \in 1..Len(attempts) :
          /\ i < j
          /\ attempts[i] = [op |-> "field_mul", ok |-> FALSE]
          /\ attempts[j] = [op |-> "field_add", ok |-> TRUE]
    /\ \E k \in 1..Len(report.results) : report.results[k].operation = "field_add"
    /\ \A k \in 1..Len(report.results) : report.results[k].operation # "field_mul"

\* C4: the kernel is dispatched exactly warmup_iterations times before the
\* first timed dispatch, a dispatch is complete before the next one starts,
\* and no warmup duration is among the samples.
C4_WarmupBeforeTimed ==
    /\ w_done <= op_config.warmup_iterations
    /\ (t_done > 0 \/ (pc = "wait" /\ phase_of(w_done, op_config) = "timed")) =>
           w_done = op_config.warmup_iterations
    /\ (pc = "wait" /\ phase_of(w_done, op_config) = "warmup") => t_done = 0
    /\ pc = "run" => in_flight = 0
    /\ Len(timings) = t_done

\* the first timed dispatch is in flight: all three warmup dispatches are
\* complete and no sample has been kept
C4_Witness ==
    /\ pc = "wait"
    /\ op_config.warmup_iterations = 3
    /\ w_done = 3
    /\ t_done = 0
    /\ in_flight = 1
    /\ timings = <<>>

\* C5: the measurement phase records exactly measurement_iterations samples,
\* one per dispatch, and at most one dispatch is in flight at any time: a
\* dispatch is submitted only after the one before it has completed.
C5_SequentialSamples ==
    /\ in_flight \in {0, 1}
    /\ in_flight = 1 <=> pc = "wait"
    /\ t_done <= op_config.measurement_iterations
    /\ run_result = "Ok" =>
           /\ t_done = op_config.measurement_iterations
           /\ Len(timings) = op_config.measurement_iterations

\* a run of two measurement iterations has returned with two samples that differ
C5_Witness ==
    /\ run_result = "Ok"
    /\ op_config.measurement_iterations = 2
    /\ Len(timings) = 2
    /\ timings[1] # timings[2]

\* C11: every BenchmarkResult returned by run_benchmark(op, cfg) carries
\* workgroup_size = cfg.workgroup_size, total_threads = cfg.workgroup_size *
\* cfg.num_workgroups, ops_per_thread = cfg.ops_per_thread and total_operations
\* = total_threads * ops_per_thread; for 64 x 1024 threads, 100 operations per
\* thread and ten constant 1 ms samples that is total_threads = 65536,
\* total_operations = 6553600, min_ns = max_ns = mean_ns = 1000000, std_dev_ns = 0.
C11_ResultCarriesConfig ==
    (Returned("run_benchmark") /\ p_out[1].kind = "ok") =>
        LET cfg == p_call.cfg
            r == p_out[1].result
        IN /\ r.workgroup_size = cfg.workgroup_size
           /\ r.total_threads = cfg.workgroup_size * cfg.num_workgroups
           /\ r.ops_per_thread = cfg.ops_per_thread
           /\ IF r.ops_per_thread = 0 THEN r.total_operations = 0
              ELSE /\ r.total_operations % r.ops_per_thread = 0
                   /\ r.total_operations \div r.ops_per_thread = r.total_threads
           /\ ( /\ cfg.workgroup_size = 64
                /\ cfg.num_workgroups = 1024
                /\ cfg.ops_per_thread = 100
                /\ p_call.timings = ScenarioTimings ) =>
                   /\ r.total_threads = 65536
                   /\ r.total_operations = 6553600
                   /\ r.min_ns = 1000000
                   /\ r.max_ns = 1000000
                   /\ RatEqInt(r.mean_ns, 1000000)
                   /\ r.std_dev_ns = "zero"

\* C12: the kernel entry-point mapping is total over available_for(b) for
\* each backend b: for every operation o in available_for(b) the runner of b
\* resolves an entry point and, for WebGPU, a shader source.
C12_KernelMappingTotal ==
    ( /\ Returned("resolve_kernel")
      /\ p_call.operation \in SeqToSet(available_for(p_call.backend)) ) =>
        /\ p_out[1].entry_point # <<>>
        /\ p_out[1].shader

\* C13: on every backend the input buffer has exactly total_threads elements
\* and element i is ((seed + i) * 0x9E3779B9) mod 2^32, so two backends given
\* the same seed and configuration receive identical input buffers; the
\* parameter block carries iterations = ops_per_thread and the seed.
C13_InputBufferDeterministic ==
    p_call.fn = "create_buffers" =>
        /\ \A n \in 1..Len(p_out) :
              LET cfg == p_call.cfg
                  buf == p_out[n]
              IN /\ Len(buf.input) = cfg.workgroup_size * cfg.num_workgroups
                 /\ \A k \in 1..Len(buf.input) :
                       buf.input[k] = ((cfg.seed + (k - 1)) * HashMultiplier) % U32Mod
                 /\ buf.params.iterations = cfg.ops_per_thread
                 /\ buf.params.seed = cfg.seed
        /\ Len(p_out) = 2 => p_out[1].input = p_out[2].input

\* the keys of the rows of a comparison, top to bottom
row_keys(rows) == [i \in 1..Len(rows) |-> rows[i].op]

\* the priority as stated, on the names the operations have: baseline add,
\* wide add, small-field add and multiply, large-field add and multiply
stated_priority(op) ==
    CASE op = "u32_add" -> 0
      [] op = "u64_add" -> 1
      [] op = "mersenne_field_add" -> 2
      [] op = "mersenne_field_mul" -> 3
      [] op = "field_add" -> 4
      [] op = "field_mul" -> 5
      [] OTHER -> 6

\* C14: the rows of a comparison follow the fixed priority, and the same
\* reports with their results inserted in the opposite order give the rows in
\* the same order
C14_RowsInFixedPriority ==
    (p_call.fn = "print_comparison" /\ Len(p_out) = 2) =>
        /\ row_keys(p_out[1]) = row_keys(p_out[2])
        /\ \A i \in 1..Len(p_out[1]), j \in 1..Len(p_out[1]) :
               i < j => stated_priority(p_out[1][i].op) <= stated_priority(p_out[1][j].op)

\* the reports the k-th comparison of a print_comparison call was given
compared_reports(k) ==
    IF k = 1 THEN p_call.reports ELSE results_reversed(p_call.reports)

\* C15: a comparison has exactly one row for each canonical key of its
\* reports' results, the two wide adds sharing the key "u64_add"; the cell of
\* a report in a row shows a result of that report whose name is the row's key
\* or one of the key's equivalents (the first such result), and is empty only
\* when the report has none
C15_OneRowPerCanonicalKey ==
    Returned("print_comparison") =>
        \A k \in 1..Len(p_out) :
            LET rows == p_out[k]
                reports == compared_reports(k)
                wide == {"u64_add_native", "u64_add_emulated"}
                canonical(name) == IF name \in wide THEN "u64_add" ELSE name
                matches(name, key) == name = key \/ (key = "u64_add" /\ name \in wide)
                matching(j, key) ==
                    {m \in 1..Len(reports[j].results) :
                        matches(reports[j].results[m].operation, key)}
                first(S) == CHOOSE m \in S : \A n \in S : m <= n
            IN /\ \A i \in 1..Len(rows), j \in 1..Len(rows) :
                      i # j => canonical(rows[i].op) # canonical(rows[j].op)
               /\ {rows[i].op : i \in 1..Len(rows)}
                      = UNION {{canonical(reports[j].results[m].operation) :
                                   m \in 1..Len(reports[j].results)} :
                               j \in 1..Len(reports)}
               /\ \A i \in 1..Len(rows) :
                      /\ Len(rows[i].gops_values) = Len(reports)
                      /\ \A j \in 1..Len(reports) :
                             rows[i].gops_values[j] =
                                 IF matching(j, rows[i].op) = {} THEN <<>>
                                 ELSE <<reports[j].results[first(matching(j, rows[i].op))]
                                            .gops_per_second>>

\* a native wide add in the first report and an emulated one in the second
\* are shown side by side in the one row "u64_add"
C15_Witness ==
    /\ Returned("print_comparison")
    /\ Len(p_call.reports) = 2
    /\ \E m \in 1..Len(p_call.reports[1].results) :
           p_call.reports[1].results[m].operation = "u64_add_native"
    /\ \E m \in 1..Len(p_call.reports[2].results) :
           p_call.reports[2].results[m].operation = "u64_add_emulated"
    /\ \E i \in 1..Len(p_out[1]) :
           /\ p_out[1][i].op = "u64_add"
           /\ p_out[1][i].gops_values[1] # <<>>
           /\ p_out[1][i].gops_values[2] # <<>>
           /\ \A j \in 1..Len(p_out[1]) : p_out[1][j].op = "u64_add" => j = i

\* C16: a row has a ratio exactly when two reports are compared, both have a
\* value in the row and the second value is not zero; the ratio is then the
\* first value divided by the second.  In every other case the row has none.
C16_RatioOnlyWhenDefined ==
    Returned("print_comparison") =>
        \A k \in 1..Len(p_out) : \A i \in 1..Len(p_out[k]) :
            LET row == p_out[k][i]
                n == Len(compared_reports(k))
                v(j) == row.gops_values[j][1]
                defined == /\ n = 2
                           /\ row.gops_values[1] # <<>>
                           /\ row.gops_values[2] # <<>>
                           /\ v(2).num # 0
            IN row.ratio = IF defined
                           THEN <<[num |-> v(1).num * v(2).den, den |-> v(1).den * v(2).num]>>
                           ELSE <<>>

\* two reports compared, with a row that has a ratio and a row whose second
\* value is zero
C16_Witness ==
    /\ Returned("print_comparison")
    /\ Len(p_call.reports) = 2
    /\ \E i \in 1..Len(p_out[1]) :
           /\ p_out[1][i].ratio # <<>>
           /\ p_out[1][i].ratio[1].num # p_out[1][i].ratio[1].den
    /\ \E i \in 1..Len(p_out[1]) :
           /\ p_out[1][i].gops_values[1] # <<>>
           /\ p_out[1][i].gops_values[2] = <<RatZero>>
           /\ p_out[1][i].ratio = <<>>

\* the results named name in the report of a u64_overhead call, in order
overhead_results(name) ==
    SelectSeq(p_call.report.results, LAMBDA r : r.operation = name)

\* C17, as stated: the overhead is present whenever the report holds both a
\* native and an emulated wide add, then being the emulated minimum time over
\* the native one, and is absent otherwise
C17_PresentWheneverBoth ==
    Returned("u64_overhead") =>
        LET native == overhead_results("u64_add_native")
            emulated == overhead_results("u64_add_emulated")
        IN p_out[1] = IF native # <<>> /\ emulated # <<>>
                      THEN <<[num |-> emulated[1].min_ns * 1000000,
                              den |-> 1000000 * native[1].min_ns]>>
                      ELSE <<>>

\* C17, amended: the overhead is present exactly when the report holds both
\* wide adds and the native one has a throughput above zero; it is then the
\* emulated minimum time over the native minimum time
C17_PresentWhenNativePositive ==
    Returned("u64_overhead") =>
        LET native == overhead_results("u64_add_native")
            emulated == overhead_results("u64_add_emulated")
        IN p_out[1] = IF /\ native # <<>>
                         /\ emulated # <<>>
                         /\ native[1].gops_per_second.num > 0
                      THEN <<[num |-> emulated[1].min_ns * 1000000,
                              den |-> 1000000 * native[1].min_ns]>>
                      ELSE <<>>

\* both wide adds in one report, the native one with a throughput: the
\* overhead is given
C17_Witness ==
    /\ Returned("u64_overhead")
    /\ overhead_results("u64_add_native") # <<>>
    /\ overhead_results("u64_add_emulated") # <<>>
    /\ p_out[1] # <<>>
    /\ p_out[1][1].num = p_out[1][1].den

\* the merge_reports call has returned its report
Merged == p_call.fn = "merge_reports" /\ Len(p_out) >= 1

\* C18: the report merge_reports returns holds the results of the given
\* reports, report after report and each in its own order, under the device
\* names and the vendors joined by " + " in report order; neither the merge
\* nor a later add_result on the merged report changes a given report
C18_MergePureOrdered ==
    /\ [](Merged =>
            LET rs == p_call.reports
                results[i \in 0..Len(rs)] ==
                    IF i = 0 THEN <<>> ELSE results[i - 1] \o rs[i].results
                names[i \in 0..Len(rs)] ==
                    IF i = 0 THEN ""
                    ELSE IF i = 1 THEN rs[1].device_name
                    ELSE names[i - 1] \o " + " \o rs[i].device_name
                vendors[i \in 0..Len(rs)] ==
                    IF i = 0 THEN ""
                    ELSE IF i = 1 THEN rs[1].device_vendor
                    ELSE vendors[i - 1] \o " + " \o rs[i].device_vendor
            IN /\ p_out[1].results = results[Len(rs)]
               /\ p_out[1].device_name = names[Len(rs)]
               /\ p_out[1].device_vendor = vendors[Len(rs)])
    /\ [][p_call.fn = "merge_reports" => p_call' = p_call]_vars

\* a Metal report and a WebGPU report, each with a result, have been merged
\* and a result has then been added to the merged report
C18_Witness ==
    /\ Merged
    /\ Len(p_call.reports) = 2
    /\ Len(p_out) = 2
    /\ p_call.reports[1].results # <<>>
    /\ p_call.reports[2].results # <<>>
    /\ p_out[1].device_vendor = "Metal + WebGPU"
    /\ Len(p_out[2].results) = Len(p_out[1].results) + 1
    /\ p_out[1].results
           = p_call.reports[1].results \o p_call.reports[2].results

\* C19: for three reports A, B and C, merging A and B first and then C,
\* merging B and C first and then A before it, and merging the three at once
\* give the same sequence of results
C19_MergeAssociative ==
    (p_call.fn = "merge_reports" /\ Len(p_call.reports) = 3 /\ Len(p_out) >= 3) =>
        /\ p_out[2].results = p_out[3].results
        /\ p_out[2].results = p_out[1].results

\* three reports, the first with two different results and the others not
\* empty, merged in the three groupings
C19_Witness ==
    /\ p_call.fn = "merge_reports"
    /\ Len(p_call.reports) = 3
    /\ Len(p_out) >= 3
    /\ Len(p_call.reports[1].results) = 2
    /\ p_call.reports[1].results[1] # p_call.reports[1].results[2]
    /\ p_call.reports[2].results # <<>>
    /\ p_call.reports[3].results # <<>>
    /\ p_call.reports[2].device_vendor # p_call.reports[3].device_vendor
    /\ Len(p_out[2].results) = 2 + Len(p_call.reports[2].results)
                                 + Len(p_call.reports[3].results)

\* C20: after add_result(r) the report's results are the results it had,
\* unchanged and in the same order, followed by r; its device name, vendor and
\* timestamp are what they were.  This holds of a report built by a session
\* and of a merged report alike.
C20_AddResultAppendOnly ==
    /\ Returned("add_result") =>
           /\ Len(p_out[1].results) = Len(p_call.report.results) + 1
           /\ \A i \in 1..Len(p_call.report.results) :
                  p_out[1].results[i] = p_call.report.results[i]
           /\ p_out[1].results[Len(p_out[1].results)] = p_call.result
           /\ p_out[1].device_name = p_call.report.device_name
           /\ p_out[1].device_vendor = p_call.report.device_vendor
           /\ p_out[1].timestamp = p_call.report.timestamp
    /\ (Merged /\ Len(p_out) \in {2, 4}) =>
           LET before == p_out[1]
               after == p_out[Len(p_out)]
           IN /\ Len(after.results) = Len(before.results) + 1
              /\ \A i \in 1..Len(before.results) : after.results[i] = before.results[i]
              /\ after.device_name = before.device_name
              /\ after.device_vendor = before.device_vendor
              /\ after.timestamp = before.timestamp

\* a result has been added to a report that held two different results
C20_Witness ==
    /\ Returned("add_result")
    /\ Len(p_call.report.results) = 2
    /\ p_call.report.results[1] # p_call.report.results[2]
    /\ p_call.result \notin SeqToSet(p_call.report.results)
    /\ p_out[1].results = p_call.report.results \o <<p_call.result>>
    /\ p_out[1].timestamp = "1700000000"

\* C21: a BenchmarkResult carries an optional cycles-per-operation value:
\* present, as min time in seconds * clock frequency / total operations, exactly
\* when a clock frequency was given to from_timings and absent otherwise; the
\* last field of the CSV row of a result without it is empty.  from_timings
\* takes no clock frequency, so every result it returns must carry the value
\* as absent.
C21_CyclesPerOpOptional ==
    (Returned("from_timings") /\ p_out[1].kind = "ok") =>
        /\ "cycles_per_op" \in DOMAIN p_out[1].result
        /\ p_out[1].result.cycles_per_op = <<>>
        /\ export_csv_cycles(p_out[1].result) = ""

C23_FatalBeforeMeasurement ==
    LET requested_missing ==
            /\ mode = "batch"
            /\ \/ args.backend = "metal" /\ "Metal" \notin platform
               \/ args.backend = "webgpu" /\ "WebGPU" \notin platform
               \/ args.backend \notin {"none", "metal", "webgpu"}
    IN (mode \in Modes /\ (platform = {} \/ requested_missing)) =>
           /\ pc \in {"start", "exit"}
           /\ in_flight = 0
           /\ w_done = 0
           /\ t_done = 0
           /\ attempts = <<>>
           /\ report = NoReport
           /\ all_reports = <<>>

\* a batch session asked for Metal where only WebGPU is available has
\* returned
C23_Witness ==
    /\ mode = "batch"
    /\ args.backend = "metal"
    /\ platform = {"WebGPU"}
    /\ pc = "exit"
    /\ report = NoReport

\* C24: the configuration of every run_benchmark call has ops_per_thread,
\* workgroup_size, num_workgroups, warmup_iterations and
\* measurement_iterations all above zero, whatever the command line or the
\* interactive input was.
C24_ConfigAllPositive ==
    (mode \in Modes /\ pc \in {"run", "wait"}) =>
        /\ op_config.ops_per_thread > 0
        /\ op_config.workgroup_size > 0
        /\ op_config.num_workgroups > 0
        /\ op_config.warmup_iterations > 0
        /\ op_config.measurement_iterations > 0

\* the session is over: main has returned, or a panic has ended it
Terminated ==
    \/ pc \in {"exit", "finished", "panicked"}
    \/ mode = "batch" /\ pc = "done"

\* C25: every session ends, given that each dispatch completes or fails: a
\* run_benchmark issues at most warmup_iterations + measurement_iterations
\* dispatches, each operation of a backend's list is attempted at most once
\* and in the list's order, and the session reaches its end.
C25_SessionTerminates ==
    /\ [](mode \in Modes =>
            /\ w_done <= op_config.warmup_iterations
            /\ t_done <= op_config.measurement_iterations
            /\ pc = "wait" =>
                   w_done + t_done < op_config.warmup_iterations
                                     + op_config.measurement_iterations
            /\ Len(attempts) <= Len(operations)
            /\ \A i \in 1..Len(attempts) : attempts[i].op = operations[i])
    /\ <>Terminated

\* a comparison over two backends, with a failed operation in the first
\* suite, has returned
C25_Witness ==
    /\ mode = "compare"
    /\ pc = "finished"
    /\ Len(all_reports) = 2
    /\ Len(all_reports[1].results) \in 1..5
    /\ Len(attempts) = Len(operations)
    /\ Len(all_reports[2].results) = 6

\* C26: in every mode run_benchmark is called on a backend only for
\* operations in available_for of that backend, and every result in a
\* backend's report names such an operation.
C26_OnlyAvailableOperationsRun ==
    mode \in Modes =>
        /\ \A i \in 1..Len(attempts) :
               attempts[i].op \in SeqToSet(available_for(backend))
        /\ pc \in {"run", "wait"} =>
               operations[idx] \in SeqToSet(available_for(backend))
        /\ \A i \in 1..Len(report.results) :
               report.results[i].operation
                   \in SeqToSet(available_for(report.results[i].backend))
        /\ \A j \in 1..Len(all_reports) : \A i \in 1..Len(all_reports[j].results) :
               all_reports[j].results[i].operation
                   \in SeqToSet(available_for(all_reports[j].results[i].backend))

\* C27: in batch and comparison mode without --full the value given with
\* --ops is the ops_per_thread of every run and of every result.
C27_OpsOverrideTakesEffect ==
    (mode \in {"batch", "compare"} /\ ~args.full) =>
        /\ pc \in {"run", "wait"} => op_config.ops_per_thread = args.ops
        /\ \A i \in 1..Len(report.results) :
               report.results[i].ops_per_thread = args.ops
        /\ \A j \in 1..Len(all_reports) : \A i \in 1..Len(all_reports[j].results) :
               all_reports[j].results[i].ops_per_thread = args.ops

\* the operation names of the results of a report
reported_operations(rep) == {rep.results[i].operation : i \in 1..Len(rep.results)}

\* C28: available_for of each backend holds exactly one of the two wide adds;
\* so the report of a run over one backend never holds both, and its
\* u64_overhead is absent.
C28_OneWideAddPerBackend ==
    /\ \A b \in Backends :
           ("u64_add_native" \in SeqToSet(available_for(b)))
               # ("u64_add_emulated" \in SeqToSet(available_for(b)))
    /\ mode \in Modes =>
           \A rep \in {report} \cup SeqToSet(all_reports) :
               /\ ~({"u64_add_native", "u64_add_emulated"} \subseteq reported_operations(rep))
               /\ u64_overhead(rep) = <<>>

\* a comparison on a machine with Metal alone has returned a report that
\* holds the native wide add among its results
C28_Witness ==
    /\ mode = "compare"
    /\ platform = {"Metal"}
    /\ pc = "finished"
    /\ Len(all_reports) = 1
    /\ "u64_add_native" \in reported_operations(all_reports[1])
    /\ Len(all_reports[1].results) >= 3
    /\ u64_overhead(all_reports[1]) = <<>>

C30_ProductsExact ==
    Returned("run_benchmark") =>
        LET cfg == p_call.cfg
            product == config_total_operations(cfg)
        IN /\ p_out[1].kind = "ok"
           /\ ~product.overflow
           /\ p_out[1].result.total_threads = cfg.workgroup_size * cfg.num_workgroups
           /\ p_out[1].result.total_threads < U64Mod
           /\ p_out[1].result.total_operations = product.val
           /\ cfg.ops_per_thread > 0 =>
                  /\ product.val % cfg.ops_per_thread = 0
                  /\ product.val \div cfg.ops_per_thread = p_out[1].result.total_threads

====
